---- MODULE Spec2Model ----
(***************************************************************************)
(* Model of services/eviction_ocr_llm_helper.py: the eviction / 3-day gap  *)
(* detector (extract_dates, detect_eviction_and_3_day_gap) and the         *)
(* argument composer (generate_eviction_argument_section_from_up_codes     *)
(* with its collaborator llm_query_gemini).                                *)
(*                                                                         *)
(* Text is a sequence of one-character strings, so that lower-casing,      *)
(* substring search and the three date regexes are computed character by   *)
(* character as the Python code computes them.                             *)
(***************************************************************************)
EXTENDS Integers, Sequences, FiniteSets, TLC

VARIABLES
    pc,              \* position of the (single, synchronous) caller
    ocr_text,        \* argument of the running / last detect call
    dates,           \* detect local: what extract_dates returned
    result,          \* outcome of detect_eviction_and_3_day_gap
    up_codes,        \* argument of the composer call
    tenant_context,  \* argument of the composer call
    api_key,         \* os.getenv("GEMINI_API_KEY") as seen by this call
    valid_args,      \* composer local: the selected LEGAL_ARGUMENTS entries
    prompt,          \* composer local: the rendered prompt
    llm_calls,       \* prompts llm_query_gemini was invoked with in this call
    remote_calls,    \* contents passed to models.generate_content in this call
    response,        \* what models.generate_content handed back
    outcome          \* how the composer call ended

vars == <<pc, ocr_text, dates, result, up_codes, tenant_context, api_key,
          valid_args, prompt, llm_calls, remote_calls, response, outcome>>

detectVars == <<ocr_text, dates, result>>
composerVars == <<up_codes, tenant_context, api_key, valid_args, prompt,
                  llm_calls, remote_calls, response, outcome>>

(***************************************************************************)
(* Bounds                                                                  *)
(***************************************************************************)
MaxCodes == 4      \* longest up_codes list tried
MaxFrags == 2      \* most fragments joined into one input text

\* how a call ends
Returned(v) == [kind |-> "return", value |-> v]
Raised(e) == [kind |-> "raise", exc |-> e]
Pending == [kind |-> "pending"]

(***************************************************************************)
(* Characters and strings                                                  *)
(***************************************************************************)
DigitChars == <<"0","1","2","3","4","5","6","7","8","9">>
UpperChars == <<"A","B","C","D","E","F","G","H","I","J","K","L","M",
                "N","O","P","Q","R","S","T","U","V","W","X","Y","Z">>
LowerChars == <<"a","b","c","d","e","f","g","h","i","j","k","l","m",
                "n","o","p","q","r","s","t","u","v","w","x","y","z">>

Range(s) == {s[i] : i \in DOMAIN s}

IsDigit(c) == c \in Range(DigitChars)

\* int() of one digit
DigitVal(c) == (CHOOSE i \in 1..10 : DigitChars[i] = c) - 1

\* \w of the regex engine
IsWordChar(c) ==
    c \in Range(DigitChars) \cup Range(UpperChars) \cup Range(LowerChars) \cup {"_"}

\* \s of the regex engine
IsSpace(c) == c \in {" ", "\n", "\t", "\r"}

\* str.lower() of one character
LowerChar(c) ==
    IF c \in Range(UpperChars)
    THEN LowerChars[CHOOSE i \in 1..26 : UpperChars[i] = c]
    ELSE c

\* variant: the text is searched as it is, not lower-cased
StrNoLower(s) == s

\* str.lower()
StrLower(s) == [i \in 1..Len(s) |-> LowerChar(s[i])]

\* needle in haystack
Contains(haystack, needle) ==
    \E i \in 0..(Len(haystack) - Len(needle)) :
        \A j \in 1..Len(needle) : haystack[i + j] = needle[j]

\* 'eviction'
KwEviction ==
    <<"e","v","i","c","t","i","o","n">>

\* 'unlawful detainer'
KwUnlawfulDetainer ==
    <<"u","n","l","a","w","f","u","l"," ","d","e","t","a","i","n","e","r">>

\* 'notice to quit'
KwNoticeToQuit ==
    <<"n","o","t","i","c","e"," ","t","o"," ","q","u","i","t">>

\* 'notice to vacate'
KwNoticeToVacate ==
    <<"n","o","t","i","c","e"," ","t","o"," ","v","a","c","a","t","e">>

\* 'pay or quit'
KwPayOrQuit ==
    <<"p","a","y"," ","o","r"," ","q","u","i","t">>

\* 'cure or quit'
KwCureOrQuit ==
    <<"c","u","r","e"," ","o","r"," ","q","u","i","t">>

\* 'three-day notice'
KwThreeDayNotice ==
    <<"t","h","r","e","e","-","d","a","y"," ","n","o","t","i","c","e">>

\* '3-day notice'
Kw3DashDayNotice ==
    <<"3","-","d","a","y"," ","n","o","t","i","c","e">>

\* '3 day notice'
Kw3DayNotice ==
    <<"3"," ","d","a","y"," ","n","o","t","i","c","e">>

\* 'three day notice'
PhThreeDayNoticeSpaced ==
    <<"t","h","r","e","e"," ","d","a","y"," ","n","o","t","i","c","e">>

\* 'three (3) day'
PhThreeParenDay ==
    <<"t","h","r","e","e"," ","(","3",")"," ","d","a","y">>

\* '(3) day notice'
PhParenDayNotice ==
    <<"(","3",")"," ","d","a","y"," ","n","o","t","i","c","e">>

\* 'within 3 days'
PhWithin3Days ==
    <<"w","i","t","h","i","n"," ","3"," ","d","a","y","s">>

\* 'within three days'
PhWithinThreeDays ==
    <<"w","i","t","h","i","n"," ","t","h","r","e","e"," ","d","a","y","s">>

\* lines 117-127
EVICTION_KEYWORDS ==
    <<KwEviction, KwUnlawfulDetainer, KwNoticeToQuit, KwNoticeToVacate,
      KwPayOrQuit, KwCureOrQuit, KwThreeDayNotice, Kw3DashDayNotice,
      Kw3DayNotice>>

\* variant: the phrase list without "3 day notice"
ThreeDayPhrasesNoPlain3 ==
    <<KwThreeDayNotice, PhThreeDayNoticeSpaced, Kw3DashDayNotice,
      PhThreeParenDay, PhParenDayNotice, PhWithin3Days, PhWithinThreeDays>>

\* lines 192-201
ThreeDayPhrases ==
    <<KwThreeDayNotice, PhThreeDayNoticeSpaced, Kw3DashDayNotice,
      Kw3DayNotice, PhThreeParenDay, PhParenDayNotice, PhWithin3Days,
      PhWithinThreeDays>>

(***************************************************************************)
(* The three date regexes, matched with the engine's backtracking order    *)
(***************************************************************************)
NoMatch == [ok |-> FALSE]

CharAt(s, i) == IF i \in 1..Len(s) THEN s[i] ELSE ""

WordAt(s, i) == i \in 1..Len(s) /\ IsWordChar(s[i])

\* \b between s[i-1] and s[i]
Boundary(s, i) == WordAt(s, i - 1) # WordAt(s, i)

\* n digits start at i
DigitsAt(s, i, n) == \A k \in 0..(n - 1) : IsDigit(CharAt(s, i + k))

\* int() of the n digits starting at i
RECURSIVE IntAt(_, _, _)
IntAt(s, i, n) ==
    IF n = 0 THEN 0 ELSE 10 * IntAt(s, i, n - 1) + DigitVal(s[i + n - 1])

\* the literal lit starts at i, compared under re.IGNORECASE
LitAt(s, i, lit) ==
    \A k \in 1..Len(lit) : LowerChar(CharAt(s, i + k - 1)) = lit[k]

\* number of whitespace characters starting at i
RECURSIVE SpaceRun(_, _)
SpaceRun(s, i) == IF IsSpace(CharAt(s, i)) THEN 1 + SpaceRun(s, i + 1) ELSE 0

\* the engine's ordered choice: the first alternative if it matches, else
\* the next one
OrElse(r, alt) == IF r.ok THEN r ELSE alt

\* group d added to the match of what follows it
WithDay(r, day) ==
    IF r.ok THEN [ok |-> TRUE, d |-> day, y |-> r.y, end |-> r.end] ELSE r

\* groups m, d, y of a numeric match that starts at start
NumericMatch(r, month, start) ==
    IF r.ok
    THEN [ok |-> TRUE, form |-> "numeric", m |-> month, d |-> r.d, y |-> r.y,
          start |-> start, end |-> r.end]
    ELSE r

\* (?P<y>\d{2,4})\b at p: greedy, 4 digits first
RECURSIVE NumYear(_, _, _)
NumYear(s, p, n) ==
    IF n < 2 THEN NoMatch
    ELSE IF DigitsAt(s, p, n) /\ Boundary(s, p + n)
         THEN [ok |-> TRUE, y |-> IntAt(s, p, n), end |-> p + n]
         ELSE NumYear(s, p, n - 1)

\* (?P<d>\d{1,2}) sep (?P<y>...)\b at p: greedy, 2 digits first
RECURSIVE NumDay(_, _, _, _)
NumDay(s, p, sep, n) ==
    IF n < 1 THEN NoMatch
    ELSE OrElse(WithDay(IF DigitsAt(s, p, n) /\ CharAt(s, p + n) = sep
                        THEN NumYear(s, p + n + 1, 4)
                        ELSE NoMatch,
                        IntAt(s, p, n)),
                NumDay(s, p, sep, n - 1))

\* (?P<m>\d{1,2}) sep ... at p: greedy, 2 digits first
RECURSIVE NumMonth(_, _, _, _)
NumMonth(s, p, sep, n) ==
    IF n < 1 THEN NoMatch
    ELSE OrElse(NumericMatch(IF DigitsAt(s, p, n) /\ CharAt(s, p + n) = sep
                             THEN NumDay(s, p + n + 1, sep, 2)
                             ELSE NoMatch,
                             IntAt(s, p, n), p),
                NumMonth(s, p, sep, n - 1))

\* lines 130-131 tried at position i
MatchNumeric(s, i, sep) ==
    IF Boundary(s, i) THEN NumMonth(s, i, sep, 2) ELSE NoMatch

\* the alternation of line 132-133: abbreviation and optional rest
MonthAlternatives ==
    << <<<<"j","a","n">>, <<"u","a","r","y">>>>,
       <<<<"f","e","b">>, <<"r","u","a","r","y">>>>,
       <<<<"m","a","r">>, <<"c","h">>>>,
       <<<<"a","p","r">>, <<"i","l">>>>,
       <<<<"m","a","y">>, <<>>>>,
       <<<<"j","u","n">>, <<"e">>>>,
       <<<<"j","u","l">>, <<"y">>>>,
       <<<<"a","u","g">>, <<"u","s","t">>>>,
       <<<<"s","e","p">>, <<"t","e","m","b","e","r">>>>,
       <<<<"o","c","t">>, <<"o","b","e","r">>>>,
       <<<<"n","o","v">>, <<"e","m","b","e","r">>>>,
       <<<<"d","e","c">>, <<"e","m","b","e","r">>>> >>

OrdinalSuffixes == << <<"s","t">>, <<"n","d">>, <<"r","d">>, <<"t","h">> >>

\* (?P<y>\d{4})\b at p
NameYear(s, p) ==
    IF DigitsAt(s, p, 4) /\ Boundary(s, p + 4)
    THEN [ok |-> TRUE, y |-> IntAt(s, p, 4), end |-> p + 4]
    ELSE NoMatch

\* \s+ then the year: k whitespace characters first, then fewer
RECURSIVE NameSpaceYear(_, _, _)
NameSpaceYear(s, p, k) ==
    IF k < 1 THEN NoMatch
    ELSE OrElse(NameYear(s, p + k), NameSpaceYear(s, p, k - 1))

\* (?:,)? then \s+ then the year
NameComma(s, p) ==
    OrElse(IF CharAt(s, p) = ","
           THEN NameSpaceYear(s, p + 1, SpaceRun(s, p + 1))
           ELSE NoMatch,
           NameSpaceYear(s, p, SpaceRun(s, p)))

\* (?:st|nd|rd|th)? then the rest: each suffix in turn, then none
RECURSIVE NameSuffix(_, _, _)
NameSuffix(s, p, k) ==
    IF k > Len(OrdinalSuffixes) THEN NameComma(s, p)
    ELSE OrElse(IF LitAt(s, p, OrdinalSuffixes[k]) THEN NameComma(s, p + 2)
                ELSE NoMatch,
                NameSuffix(s, p, k + 1))

\* (?P<d>\d{1,2}) then the rest: greedy, 2 digits first
RECURSIVE NameDay(_, _, _)
NameDay(s, p, n) ==
    IF n < 1 THEN NoMatch
    ELSE OrElse(WithDay(IF DigitsAt(s, p, n) THEN NameSuffix(s, p + n, 1)
                        ELSE NoMatch,
                        IntAt(s, p, n)),
                NameDay(s, p, n - 1))

\* \s+ then the day: k whitespace characters first, then fewer
RECURSIVE NameSpaceDay(_, _, _)
NameSpaceDay(s, p, k) ==
    IF k < 1 THEN NoMatch
    ELSE OrElse(NameDay(s, p + k, 2), NameSpaceDay(s, p, k - 1))

\* groups month, d, y of a month-name match that starts at start
NameMatch(r, token, start) ==
    IF r.ok
    THEN [ok |-> TRUE, form |-> "name", month |-> token, d |-> r.d, y |-> r.y,
          start |-> start, end |-> r.end]
    ELSE r

\* a month token of length n at i, then the rest
NameToken(s, i, n) ==
    NameMatch(NameSpaceDay(s, i + n, SpaceRun(s, i + n)),
              SubSeq(s, i, i + n - 1), i)

\* the literal tok at i as month token, then the rest
NameLiteral(s, i, tok) ==
    IF LitAt(s, i, tok) THEN NameToken(s, i, Len(tok)) ELSE NoMatch

\* the alternatives in turn, each with its optional rest first
RECURSIVE NameAlternative(_, _, _)
NameAlternative(s, i, a) ==
    IF a > Len(MonthAlternatives) THEN NoMatch
    ELSE OrElse(OrElse(NameLiteral(s, i, MonthAlternatives[a][1]
                                            \o MonthAlternatives[a][2]),
                       NameLiteral(s, i, MonthAlternatives[a][1])),
                NameAlternative(s, i, a + 1))

\* lines 132-134 tried at position i
MatchMonthName(s, i) ==
    IF Boundary(s, i) THEN NameAlternative(s, i, 1) ELSE NoMatch

\* lines 129-135
DATE_REGEXES == <<"slash", "dash", "name">>

MatchAt(rx, s, i) ==
    IF rx = "slash" THEN MatchNumeric(s, i, "/")
    ELSE IF rx = "dash" THEN MatchNumeric(s, i, "-")
    ELSE MatchMonthName(s, i)

\* the positions from pos on at which rx matches
MatchPositions(rx, s, pos) == {p \in pos..Len(s) : MatchAt(rx, s, p).ok}

SetMin(S) == CHOOSE x \in S : \A y \in S : x <= y

RECURSIVE FindIter(_, _, _)

\* the match m, then the matches after its end
MatchThenRest(rx, s, m) == <<m>> \o FindIter(rx, s, m.end)

\* the leftmost match among the positions P, then the matches after it
LeftmostThenRest(rx, s, P) ==
    IF P = {} THEN <<>> ELSE MatchThenRest(rx, s, MatchAt(rx, s, SetMin(P)))

\* re.finditer(rx, s, flags=re.IGNORECASE): leftmost, non-overlapping
FindIter(rx, s, pos) == LeftmostThenRest(rx, s, MatchPositions(rx, s, pos))

(***************************************************************************)
(* Calendar (datetime of the standard library)                             *)
(***************************************************************************)
\* lines 137-150
MONTH_MAP ==
    << <<<<"j","a","n">>, 1>>, <<<<"j","a","n","u","a","r","y">>, 1>>,
       <<<<"f","e","b">>, 2>>, <<<<"f","e","b","r","u","a","r","y">>, 2>>,
       <<<<"m","a","r">>, 3>>, <<<<"m","a","r","c","h">>, 3>>,
       <<<<"a","p","r">>, 4>>, <<<<"a","p","r","i","l">>, 4>>,
       <<<<"m","a","y">>, 5>>,
       <<<<"j","u","n">>, 6>>, <<<<"j","u","n","e">>, 6>>,
       <<<<"j","u","l">>, 7>>, <<<<"j","u","l","y">>, 7>>,
       <<<<"a","u","g">>, 8>>, <<<<"a","u","g","u","s","t">>, 8>>,
       <<<<"s","e","p">>, 9>>, <<<<"s","e","p","t","e","m","b","e","r">>, 9>>,
       <<<<"o","c","t">>, 10>>, <<<<"o","c","t","o","b","e","r">>, 10>>,
       <<<<"n","o","v">>, 11>>, <<<<"n","o","v","e","m","b","e","r">>, 11>>,
       <<<<"d","e","c">>, 12>>, <<<<"d","e","c","e","m","b","e","r">>, 12>> >>

\* MONTH_MAP.get(key): 0 stands for None (both are falsy on line 167)
MonthMapGet(key) ==
    IF \E i \in DOMAIN MONTH_MAP : MONTH_MAP[i][1] = key
    THEN MONTH_MAP[CHOOSE i \in DOMAIN MONTH_MAP : MONTH_MAP[i][1] = key][2]
    ELSE 0

\* lines 153-154
normalize_year(y) == IF y < 100 THEN 2000 + y ELSE y

IsLeap(y) == y % 4 = 0 /\ (y % 100 # 0 \/ y % 400 = 0)

DaysInMonth(y, m) ==
    IF m = 2 THEN (IF IsLeap(y) THEN 29 ELSE 28)
    ELSE IF m \in {4, 6, 9, 11} THEN 30 ELSE 31

ValueError == [error |-> "ValueError"]

\* datetime(year, month, day): the value, or ValueError
MakeDatetime(y, m, d) ==
    IF /\ y >= 1 /\ y <= 9999
       /\ m >= 1 /\ m <= 12
       /\ d >= 1 /\ d <= DaysInMonth(y, m)
    THEN [year |-> y, month |-> m, day |-> d]
    ELSE ValueError

RECURSIVE DaysBeforeMonth(_, _)
DaysBeforeMonth(y, m) ==
    IF m = 1 THEN 0 ELSE DaysBeforeMonth(y, m - 1) + DaysInMonth(y, m - 1)

\* date.toordinal()
ToOrdinal(dt) ==
    LET y1 == dt.year - 1
    IN  y1 * 365 + (y1 \div 4) - (y1 \div 100) + (y1 \div 400)
        + DaysBeforeMonth(dt.year, dt.month) + dt.day

\* datetime.__lt__ for midnight values: (year, month, day) compared in turn
DateLess(a, b) ==
    \/ a.year < b.year
    \/ a.year = b.year /\ a.month < b.month
    \/ a.year = b.year /\ a.month = b.month /\ a.day < b.day

\* two digits / four digits, zero padded
Pad2(n) == <<DigitChars[((n \div 10) % 10) + 1], DigitChars[(n % 10) + 1]>>
Pad4(n) == Pad2(n \div 100) \o Pad2(n % 100)

\* date.isoformat()
IsoFormat(dt) == Pad4(dt.year) \o <<"-">> \o Pad2(dt.month) \o <<"-">> \o Pad2(dt.day)

(***************************************************************************)
(* extract_dates                                                           *)
(***************************************************************************)
\* variant: a numeric triple whose month is above 12 is read as D/M/Y
ConvertMatchSwap(m) ==
    IF m.form = "name"
    THEN LET month == MonthMapGet(StrLower(m.month))
         IN  IF month = 0 THEN [skip |-> TRUE]
             ELSE MakeDatetime(normalize_year(m.y), month, m.d)
    ELSE IF m.m > 12 THEN MakeDatetime(normalize_year(m.y), m.d, m.m)
    ELSE MakeDatetime(normalize_year(m.y), m.m, m.d)

\* lines 165-176: the body of the try for one match
ConvertMatch(m) ==
    IF m.form = "name"
    THEN LET month == MonthMapGet(StrLower(m.month))
         IN  IF month = 0 THEN [skip |-> TRUE]
             ELSE MakeDatetime(normalize_year(m.y), month, m.d)
    ELSE MakeDatetime(normalize_year(m.y), m.m, m.d)

\* lines 161-162: every match of every regex, regex by regex
AllMatches(s) ==
    FindIter(DATE_REGEXES[1], s, 1) \o FindIter(DATE_REGEXES[2], s, 1)
        \o FindIter(DATE_REGEXES[3], s, 1)

IsDate(x) == "year" \in DOMAIN x

\* dates.append(dt) for a conversion that gave a date; continue otherwise
KeepDate(x, rest) ==
    IF IsDate(x) THEN Returned(<<x>> \o rest.value) ELSE rest

\* variant: no try / except around the conversion
RaiseOrKeep(x, rest) ==
    IF x = ValueError \/ rest.kind = "raise" THEN Raised("ValueError")
    ELSE KeepDate(x, rest)

RECURSIVE CollectDatesNoTry(_)
CollectDatesNoTry(conv) ==
    IF conv = <<>> THEN Returned(<<>>)
    ELSE RaiseOrKeep(Head(conv), CollectDatesNoTry(Tail(conv)))

\* lines 164-179: try / except Exception: continue, over the conversions
RECURSIVE CollectDates(_)
CollectDates(conv) ==
    IF conv = <<>> THEN Returned(<<>>)
    ELSE KeepDate(Head(conv), CollectDates(Tail(conv)))

\* d[key] = value for a key that may be present already
DictPut(front, last) ==
    IF \E i \in DOMAIN front : front[i] = last THEN front
    ELSE Append(front, last)

\* {d.date(): d for d in dates}.values(): one value per key, in the order
\* the keys were first inserted
RECURSIVE DictValues(_)
DictValues(ds) ==
    IF ds = <<>> THEN <<>>
    ELSE DictPut(DictValues(SubSeq(ds, 1, Len(ds) - 1)), ds[Len(ds)])

\* insertion of x into the ascending sequence s, after equal elements
RECURSIVE InsertSorted(_, _)
InsertSorted(s, x) ==
    IF s = <<>> THEN <<x>>
    ELSE IF DateLess(x, Head(s)) THEN <<x>> \o s
         ELSE <<Head(s)>> \o InsertSorted(Tail(s), x)

\* sorted(values, key=lambda x: x)
RECURSIVE Sorted(_)
Sorted(ds) ==
    IF ds = <<>> THEN <<>>
    ELSE InsertSorted(Sorted(SubSeq(ds, 1, Len(ds) - 1)), ds[Len(ds)])

\* variant: sorted(dates) without the dictionary keyed by day
UniqNoDedup(ds) == Sorted(ds)

\* line 181
Uniq(ds) == Sorted(DictValues(ds))

\* lines 181-182, reached unless an exception left the loop
UniqOf(collected) ==
    IF collected.kind = "raise" THEN collected
    ELSE Returned(Uniq(collected.value))

\* lines 163-176 for each match
Conversions(ms) == [i \in 1..Len(ms) |-> ConvertMatch(ms[i])]

\* lines 157-182
extract_dates(text) == UniqOf(CollectDates(Conversions(AllMatches(text))))

(***************************************************************************)
(* detect_eviction_and_3_day_gap                                           *)
(***************************************************************************)
\* [x for x in s if x in t]
RECURSIVE SubstringsFound(_, _)
SubstringsFound(s, t) ==
    IF s = <<>> THEN <<>>
    ELSE IF Contains(t, Head(s)) THEN <<Head(s)>> \o SubstringsFound(Tail(s), t)
         ELSE SubstringsFound(Tail(s), t)

\* lines 191-202
ExplicitThreeDay(t) ==
    \E k \in DOMAIN ThreeDayPhrases : Contains(t, ThreeDayPhrases[k])

AbsInt(n) == IF n < 0 THEN 0 - n ELSE n

\* lines 206-212: the inner loop, j from lo to len(dates)
RECURSIVE PairsFrom(_, _, _)
PairsFrom(ds, i, j) ==
    IF j > Len(ds) THEN <<>>
    ELSE LET diff == AbsInt(ToOrdinal(ds[j]) - ToOrdinal(ds[i]))
         IN  (IF diff = 3
              THEN << <<IsoFormat(ds[i]), IsoFormat(ds[j]), diff>> >>
              ELSE <<>>) \o PairsFrom(ds, i, j + 1)

\* variant: the inner loop starts at 0 instead of i + 1
RECURSIVE DatePairs3DaysAllJ(_, _)
DatePairs3DaysAllJ(ds, i) ==
    IF i > Len(ds) THEN <<>>
    ELSE PairsFrom(ds, i, 1) \o DatePairs3DaysAllJ(ds, i + 1)

\* lines 205-212: the outer loop
RECURSIVE DatePairs3Days(_, _)
DatePairs3Days(ds, i) ==
    IF i > Len(ds) THEN <<>>
    ELSE PairsFrom(ds, i, i + 1) \o DatePairs3Days(ds, i + 1)

\* variant: the verdict follows the 3-day signal alone
VerdictGapOnly(looks_like_eviction, has_three_day_gap) == has_three_day_gap

\* line 223
Verdict(looks_like_eviction, has_three_day_gap) ==
    looks_like_eviction /\ has_three_day_gap

\* lines 214-224
ResultOf(keyword_hits, explicit_three_day, ds, date_pairs_3_days) ==
    [looks_like_eviction |-> Len(keyword_hits) > 0,
     keyword_hits |-> keyword_hits,
     explicit_three_day_language |-> explicit_three_day,
     extracted_dates |-> [k \in 1..Len(ds) |-> IsoFormat(ds[k])],
     date_pairs_with_3_day_gap |-> date_pairs_3_days,
     evicted_with_3_day_gap |->
         Verdict(Len(keyword_hits) > 0,
                 explicit_three_day \/ date_pairs_3_days # <<>>)]

\* lines 186-224 once extract_dates is back
DetectWith(t, extracted) ==
    IF extracted.kind = "raise" THEN extracted
    ELSE Returned(ResultOf(SubstringsFound(EVICTION_KEYWORDS, t),
                           ExplicitThreeDay(t),
                           extracted.value,
                           DatePairs3Days(extracted.value, 1)))

\* lines 185-224: the value returned, or the exception that leaves the call
DetectionResult(text) == DetectWith(StrLower(text), extract_dates(text))

(***************************************************************************)
(* Input texts                                                             *)
(***************************************************************************)
\* 'THREE-DAY NOTICE '
FrThreeDayNotice ==
    <<"T","H","R","E","E","-","D","A","Y"," ","N","O","T","I","C","E"," ">>

\* 'Eviction '
FrEviction ==
    <<"E","v","i","c","t","i","o","n"," ">>

\* 'unlawful detainer '
FrUnlawfulDetainer ==
    <<"u","n","l","a","w","f","u","l"," ","d","e","t","a","i","n","e","r",
      " ">>

\* 'within three days '
FrWithinThreeDays ==
    <<"w","i","t","h","i","n"," ","t","h","r","e","e"," ","d","a","y","s",
      " ">>

\* '3 Day Notice'
Fr3DayNotice ==
    <<"3"," ","D","a","y"," ","N","o","t","i","c","e">>

\* 'pay rent or quit. '
FrPayRentOrQuit ==
    <<"p","a","y"," ","r","e","n","t"," ","o","r"," ","q","u","i","t",".",
      " ">>

\* '01/01/2026 '
FrSlashJan1 ==
    <<"0","1","/","0","1","/","2","0","2","6"," ">>

\* '1-4-26 '
FrDashJan4 ==
    <<"1","-","4","-","2","6"," ">>

\* 'Jan 4th, 2026 '
FrNameJan4 ==
    <<"J","a","n"," ","4","t","h",","," ","2","0","2","6"," ">>

\* '01/07/2026 - January 10, 2026'
FrJan7Jan10 ==
    <<"0","1","/","0","7","/","2","0","2","6"," ","-"," ","J","a","n","u",
      "a","r","y"," ","1","0",","," ","2","0","2","6">>

\* 'DECEMBER  29 2025\n'
FrNameDec29 ==
    <<"D","E","C","E","M","B","E","R"," "," ","2","9"," ","2","0","2","5",
      "\n">>

\* '02/29/24 '
FrSlashLeapDay ==
    <<"0","2","/","2","9","/","2","4"," ">>

\* '04/31/2026 '
FrSlashApr31 ==
    <<"0","4","/","3","1","/","2","0","2","6"," ">>

\* '13/01/2026 '
FrSlashMonth13 ==
    <<"1","3","/","0","1","/","2","0","2","6"," ">>

\* '2-29-2025 '
FrDashFeb29 ==
    <<"2","-","2","9","-","2","0","2","5"," ">>

\* 'x'
FrLetterX ==
    <<"x">>

\* 'THREE-DAY NOTICE TO PAY RENT OR QUIT. Notice served on: 01/01/2026. You must pay within three days. Deadline: 01/04/2026'
SelfTestText ==
    <<"T","H","R","E","E","-","D","A","Y"," ","N","O","T","I","C","E"," ",
      "T","O"," ","P","A","Y"," ","R","E","N","T"," ","O","R"," ","Q","U",
      "I","T","."," ","N","o","t","i","c","e"," ","s","e","r","v","e","d",
      " ","o","n",":"," ","0","1","/","0","1","/","2","0","2","6","."," ",
      "Y","o","u"," ","m","u","s","t"," ","p","a","y"," ","w","i","t","h",
      "i","n"," ","t","h","r","e","e"," ","d","a","y","s","."," ","D","e",
      "a","d","l","i","n","e",":"," ","0","1","/","0","4","/","2","0","2",
      "6">>

Fragments ==
    {FrThreeDayNotice, FrEviction, FrUnlawfulDetainer, FrWithinThreeDays,
     Fr3DayNotice, FrPayRentOrQuit, FrSlashJan1, FrDashJan4, FrNameJan4,
     FrJan7Jan10, FrNameDec29, FrSlashLeapDay, FrSlashApr31, FrSlashMonth13,
     FrDashFeb29, FrLetterX}

\* str.join of up to n fragments
RECURSIVE TextsOf(_)
TextsOf(n) ==
    IF n = 0 THEN {<<>>}
    ELSE TextsOf(n - 1) \cup {t \o f : t \in TextsOf(n - 1), f \in Fragments}

Texts == TextsOf(MaxFrags) \cup {SelfTestText}

\* detect_eviction_and_3_day_gap(text), lines 185-224
detect_eviction_and_3_day_gap(text) ==
    /\ pc = "idle"
    /\ ocr_text' = text
    /\ dates' = extract_dates(text)
    /\ result' = DetectionResult(text)
    /\ pc' = "detected"
    /\ UNCHANGED composerVars

\* the caller has the result
DetectDone ==
    /\ pc = "detected"
    /\ pc' = "idle"
    /\ ocr_text' = <<>>
    /\ dates' = Pending
    /\ result' = Pending
    /\ UNCHANGED composerVars

(***************************************************************************)
(* Argument composer                                                       *)
(***************************************************************************)
NoValue == "None"   \* Python's None, as an f-string renders it

LEGAL_ARGUMENTS ==
    [UP003 |-> [short_claim |->
                  "I did not receive ten full days to either pay the rent owed or move out.",
                long_explanation |->
                  "Under C.R.S. 13-40-104(1)(d), a landlord must provide at least ten full days "
                  \o "of notice before filing an eviction lawsuit. My eviction notice expired "
                  \o "before ten full days had passed."],
     UP001 |-> [short_claim |->
                  "I do not owe the rent claimed because I paid the full amount due.",
                long_explanation |->
                  "A landlord cannot prevail in an eviction case based on nonpayment of rent "
                  \o "if the tenant has paid all rent owed, and I am prepared to provide proof of payment."],
     UP013 |-> [short_claim |->
                  "I attempted to pay the full amount of rent owed, but my landlord refused to accept it.",
                long_explanation |->
                  "If a tenant offers full payment of rent, the landlord must accept it and "
                  \o "stop the eviction process, even if a lawsuit has already been filed."]]

\* codes a caller may pass: the three keys of the table and one unknown code
UpCodes == {"UP003", "UP001", "UP013", "UP999"}

CodeLists == UNION {[1..n -> UpCodes] : n \in 0..MaxCodes}

\* tenant_context mappings: both labels, one label, none
TenantContexts ==
    { [state |-> "Colorado", eviction_type |-> "Nonpayment of Rent"],
      [state |-> "Colorado"],
      <<>> }

\* os.getenv("GEMINI_API_KEY"): unset, set to the empty string, set
ApiKeys == {NoValue, "", "key"}

\* what models.generate_content can hand back: no response object, a
\* response whose text is None or empty, a response with text, or an
\* exception of the SDK
Responses ==
    { [kind |-> "none"],
      [kind |-> "response", text |-> NoValue],
      [kind |-> "response", text |-> ""],
      [kind |-> "response", text |-> "The eviction should not proceed."],
      [kind |-> "response", text |-> "  I paid in full.\n"],
      [kind |-> "error", exc |-> "APIError"] }

\* [x for x in s if P(x)]
RECURSIVE SelectSeqOf(_, _)
SelectSeqOf(s, S) ==
    IF s = <<>> THEN <<>>
    ELSE IF Head(s) \in S THEN <<Head(s)>> \o SelectSeqOf(Tail(s), S)
         ELSE SelectSeqOf(Tail(s), S)

\* s[:n]
Prefix(s, n) == SubSeq(s, 1, IF Len(s) < n THEN Len(s) ELSE n)

\* variant: the list is cut to two codes before the unknown ones are dropped
ValidArgsCutFirst(codes) ==
    LET kept == SelectSeqOf(Prefix(codes, 2), DOMAIN LEGAL_ARGUMENTS)
    IN  [i \in 1..Len(kept) |-> LEGAL_ARGUMENTS[kept[i]]]

\* lines 276-280: [LEGAL_ARGUMENTS[code] for code in up_codes
\*                 if code in LEGAL_ARGUMENTS][:2]
ValidArgs(codes) ==
    LET kept == SelectSeqOf(codes, DOMAIN LEGAL_ARGUMENTS)
        args == [i \in 1..Len(kept) |-> LEGAL_ARGUMENTS[kept[i]]]
    IN  Prefix(args, 2)

\* "\n".join(lines)
RECURSIVE JoinLines(_)
JoinLines(lines) ==
    IF lines = <<>> THEN ""
    ELSE IF Len(lines) = 1 THEN lines[1]
         ELSE lines[1] \o "\n" \o JoinLines(Tail(lines))

\* lines 288-291
ArgumentText(args) ==
    JoinLines([i \in 1..Len(args) |->
                 "- " \o args[i].short_claim \o " " \o args[i].long_explanation])

\* dict.get(key)
DictGet(d, k) == IF k \in DOMAIN d THEN d[k] ELSE NoValue

\* lines 293-312: the f-string template
RenderPrompt(ctx, args) ==
    "\nYou are helping a tenant draft a clear, professional legal statement\n"
    \o "to include in an eviction court filing.\n\n"
    \o "STRICT CONSTRAINTS:\n"
    \o "- Do NOT invent new legal arguments\n"
    \o "- Do NOT add facts not explicitly stated\n"
    \o "- Do NOT cite additional statutes or case law\n"
    \o "- Use respectful, first-person language\n"
    \o "- Merge the arguments into one cohesive narrative (no bullets)\n\n"
    \o "Tenant context:\n"
    \o "- State: " \o DictGet(ctx, "state") \o "\n"
    \o "- Eviction type: " \o DictGet(ctx, "eviction_type") \o "\n\n"
    \o "Legal arguments to include:\n"
    \o ArgumentText(args) \o "\n\n"
    \o "Write a single well-flowing paragraph explaining why the eviction should not proceed.\n"

\* variant: the early return of line 282-283 is missing
NoValidArgsNever(args) == FALSE

\* line 282: not valid_args
NoValidArgs(args) == args = <<>>

\* generate_eviction_argument_section_from_up_codes, up to the call of
\* llm_query_gemini on line 317
generate_eviction_argument_section_from_up_codes(codes, ctx, key) ==
    /\ pc = "idle"
    /\ up_codes' = codes
    /\ tenant_context' = ctx
    /\ api_key' = key
    /\ valid_args' = ValidArgs(codes)
    /\ remote_calls' = <<>>
    /\ response' = Pending
    /\ IF NoValidArgs(ValidArgs(codes))
       THEN /\ prompt' = ""
            /\ llm_calls' = <<>>
            /\ outcome' = Returned("")
            /\ pc' = "returned"
       ELSE /\ prompt' = RenderPrompt(ctx, ValidArgs(codes))
            /\ llm_calls' = <<RenderPrompt(ctx, ValidArgs(codes))>>
            /\ outcome' = Pending
            /\ pc' = "llm"
    /\ UNCHANGED detectVars

\* not os.getenv("GEMINI_API_KEY")
KeyMissing(key) == key = NoValue \/ key = ""

\* llm_query_gemini, lines 99-100: the credential is missing; the
\* EnvironmentError leaves the composer through line 317
llm_query_gemini_no_key ==
    /\ pc = "llm"
    /\ KeyMissing(api_key)
    /\ outcome' = Raised("EnvironmentError")
    /\ pc' = "returned"
    /\ UNCHANGED <<up_codes, tenant_context, api_key, valid_args, prompt,
                   llm_calls, remote_calls, response>>
    /\ UNCHANGED detectVars

\* not response or not response.text
EmptyResponse(r) == r.kind = "none" \/ r.text = NoValue \/ r.text = ""

\* variant: an empty answer is returned as empty text instead of raised
LlmOutcomeSwallow(r) ==
    IF r.kind = "error" THEN Raised(r.exc)
    ELSE IF r.kind = "none" \/ r.text = NoValue THEN Returned("")
    ELSE Returned(r.text)

\* what llm_query_gemini does with the answer of generate_content
LlmOutcome(r) ==
    IF r.kind = "error" THEN Raised(r.exc)
    ELSE IF EmptyResponse(r) THEN Raised("RuntimeError")
    ELSE Returned(r.text)

\* llm_query_gemini, lines 102-111, and the return on line 317
llm_query_gemini(r) ==
    /\ pc = "llm"
    /\ ~KeyMissing(api_key)
    /\ remote_calls' = Append(remote_calls, llm_calls[Len(llm_calls)])
    /\ response' = r
    /\ outcome' = LlmOutcome(r)
    /\ pc' = "returned"
    /\ UNCHANGED <<up_codes, tenant_context, api_key, valid_args, prompt,
                   llm_calls>>
    /\ UNCHANGED detectVars

\* the caller has the outcome; the locals of the call are gone
ComposerDone ==
    /\ pc = "returned"
    /\ pc' = "idle"
    /\ up_codes' = <<>>
    /\ tenant_context' = <<>>
    /\ api_key' = NoValue
    /\ valid_args' = <<>>
    /\ prompt' = ""
    /\ llm_calls' = <<>>
    /\ remote_calls' = <<>>
    /\ response' = Pending
    /\ outcome' = Pending
    /\ UNCHANGED detectVars

Init ==
    /\ pc = "idle"
    /\ ocr_text = <<>>
    /\ dates = Pending
    /\ result = Pending
    /\ up_codes = <<>>
    /\ tenant_context = <<>>
    /\ api_key = NoValue
    /\ valid_args = <<>>
    /\ prompt = ""
    /\ llm_calls = <<>>
    /\ remote_calls = <<>>
    /\ response = Pending
    /\ outcome = Pending

Next ==
    \/ \E text \in Texts : detect_eviction_and_3_day_gap(text)
    \/ DetectDone
    \/ \E codes \in CodeLists, ctx \in TenantContexts, key \in ApiKeys :
         generate_eviction_argument_section_from_up_codes(codes, ctx, key)
    \/ llm_query_gemini_no_key
    \/ \E r \in Responses : llm_query_gemini(r)
    \/ ComposerDone

Spec == Init /\ [][Next]_vars

(***************************************************************************)
(* Properties                                                              *)
(***************************************************************************)
Detected == pc = "detected"
InComposer == pc \in {"llm", "returned"}

\* the keys of the lookup table, as the documentation lists them
TableKeys == {"UP003", "UP001", "UP013"}

\* the calendar, stated day by day
LastDayOf(y, m) ==
    IF m = 2
    THEN (IF (y % 4 = 0 /\ y % 100 # 0) \/ y % 400 = 0 THEN 29 ELSE 28)
    ELSE <<31, 28, 31, 30, 31, 30, 31, 31, 30, 31, 30, 31>>[m]

RealDate(d) ==
    /\ d.year \in 1..9999
    /\ d.month \in 1..12
    /\ d.day \in 1..LastDayOf(d.year, d.month)

NextDay(d) ==
    IF d.day < LastDayOf(d.year, d.month)
    THEN [year |-> d.year, month |-> d.month, day |-> d.day + 1]
    ELSE IF d.month < 12
         THEN [year |-> d.year, month |-> d.month + 1, day |-> 1]
         ELSE [year |-> d.year + 1, month |-> 1, day |-> 1]

ThreeDaysAfter(a, b) == NextDay(NextDay(NextDay(a))) = b

DayKey(d) == d.year * 10000 + d.month * 100 + d.day

\* YYYY-MM-DD read back
ParseIso(s) ==
    [year |-> IntAt(s, 1, 4), month |-> IntAt(s, 6, 2), day |-> IntAt(s, 9, 2)]

HasDigit(t) == \E i \in DOMAIN t : t[i] \in Range(DigitChars)

Iso20260101 == <<"2","0","2","6","-","0","1","-","0","1">>
Iso20260104 == <<"2","0","2","6","-","0","1","-","0","4">>

ResultFields ==
    {"looks_like_eviction", "keyword_hits", "explicit_three_day_language",
     "extracted_dates", "date_pairs_with_3_day_gap", "evicted_with_3_day_gap"}

\* C1: the verdict of a detection is true exactly when a keyword was hit and
\* there is explicit three-day language or at least one 3-day date pair.
C1_VerdictIffBothSignals ==
    Detected =>
        /\ result.kind = "return"
        /\ result.value.evicted_with_3_day_gap
             = (/\ result.value.keyword_hits # <<>>
                /\ \/ result.value.explicit_three_day_language
                   \/ result.value.date_pairs_with_3_day_gap # <<>>)

\* a 3-day date pair without any eviction keyword: the verdict is false
C1_Witness ==
    /\ Detected
    /\ result.value.keyword_hits = <<>>
    /\ result.value.date_pairs_with_3_day_gap # <<>>
    /\ ~result.value.evicted_with_3_day_gap

\* C2: extract_dates returns calendar days in strictly ascending order, none
\* twice, and nothing at all for a text without any digit.
C2_DatesStrictlyAscending ==
    Detected =>
        /\ dates.kind = "return"
        /\ \A i, j \in DOMAIN dates.value :
             i < j => DayKey(dates.value[i]) < DayKey(dates.value[j])
        /\ ~HasDigit(ocr_text) => dates.value = <<>>

\* the same day written in two forms is extracted once
C2_Witness ==
    /\ Detected
    /\ ocr_text = FrDashJan4 \o FrNameJan4
    /\ Len(dates.value) = 1

\* C3: the gap pairs are exactly the pairs (a, b, 3) of extracted dates with
\* b three days after a, each listed once and never in reverse.
C3_PairsExactlyThreeDaysApart ==
    Detected =>
        LET E == result.value.extracted_dates
            P == result.value.date_pairs_with_3_day_gap
            Apart == {q \in (DOMAIN E) \X (DOMAIN E) :
                        ThreeDaysAfter(ParseIso(E[q[1]]), ParseIso(E[q[2]]))}
            Expected == {<<E[q[1]], E[q[2]], 3>> : q \in Apart}
        IN  /\ Range(P) = Expected
            /\ Len(P) = Cardinality(Expected)
            /\ \A k \in DOMAIN P : <<P[k][2], P[k][1], 3>> \notin Range(P)

\* a chain of three dates, each three days after the one before: two pairs
C3_Witness ==
    /\ Detected
    /\ Len(result.value.extracted_dates) = 3
    /\ Len(result.value.date_pairs_with_3_day_gap) = 2

\* C4: a composer call whose code list holds no key of the lookup table
\* returns the empty string, and neither llm_query_gemini nor the remote
\* generate_content is invoked at any point of that call.
C4_NoValidCodeNoGeneration ==
    (InComposer /\ \A i \in DOMAIN up_codes : up_codes[i] \notin TableKeys) =>
        /\ pc = "returned"
        /\ outcome = Returned("")
        /\ llm_calls = <<>>
        /\ remote_calls = <<>>

\* only unknown codes, with a credential present
C4_Witness ==
    /\ pc = "returned"
    /\ up_codes = <<"UP999", "UP999">>
    /\ api_key = "key"
    /\ outcome = Returned("")

ValidPositions == {i \in DOMAIN up_codes : up_codes[i] \in TableKeys}

KthValid(k) ==
    CHOOSE i \in ValidPositions :
        Cardinality({j \in ValidPositions : j < i}) = k - 1

FirstTwoValid ==
    [k \in 1..(IF Cardinality(ValidPositions) < 2
               THEN Cardinality(ValidPositions) ELSE 2)
       |-> LEGAL_ARGUMENTS[up_codes[KthValid(k)]]]

\* the prompt for ["UP003","UP013","UP999"] and the Colorado context, written out
ExamplePrompt ==
    "\n"
    \o "You are helping a tenant draft a clear, professional legal statement\n"
    \o "to include in an eviction court filing.\n"
    \o "\n"
    \o "STRICT CONSTRAINTS:\n"
    \o "- Do NOT invent new legal arguments\n"
    \o "- Do NOT add facts not explicitly stated\n"
    \o "- Do NOT cite additional statutes or case law\n"
    \o "- Use respectful, first-person language\n"
    \o "- Merge the arguments into one cohesive narrative (no bullets)\n"
    \o "\n"
    \o "Tenant context:\n"
    \o "- State: Colorado\n"
    \o "- Eviction type: Nonpayment of Rent\n"
    \o "\n"
    \o "Legal arguments to include:\n"
    \o "- I did not receive ten full days to either pay the rent owed or move out. Under C.R.S. 13-40-104(1)(d), a landlord must provide at least ten full days of notice before filing an eviction lawsuit. My eviction notice expired before ten full days had passed.\n"
    \o "- I attempted to pay the full amount of rent owed, but my landlord refused to accept it. If a tenant offers full payment of rent, the landlord must accept it and stop the eviction process, even if a lawsuit has already been filed.\n"
    \o "\n"
    \o "Write a single well-flowing paragraph explaining why the eviction should not proceed.\n"

\* C5: the composer renders at most two arguments: those of the first two
\* entries of the code list that are keys of the table, in list order.
C5_FirstTwoValidInInputOrder ==
    InComposer =>
        /\ Len(valid_args) <= 2
        /\ valid_args = FirstTwoValid
        /\ valid_args # <<>> => llm_calls = <<RenderPrompt(tenant_context, FirstTwoValid)>>
        /\ up_codes = <<"UP003", "UP013", "UP999">> =>
             /\ valid_args = <<LEGAL_ARGUMENTS.UP003, LEGAL_ARGUMENTS.UP013>>
             /\ DOMAIN tenant_context = {"state", "eviction_type"} =>
                  llm_calls = <<ExamplePrompt>>
        /\ up_codes = <<"UP999", "UP013", "UP001", "UP003">> =>
             valid_args = <<LEGAL_ARGUMENTS.UP013, LEGAL_ARGUMENTS.UP001>>

\* an unknown code first, then three known ones
C5_Witness ==
    /\ pc = "llm"
    /\ up_codes = <<"UP999", "UP013", "UP001", "UP003">>
    /\ Len(valid_args) = 2

\* C6: a detection always returns, with all six fields; for the empty text
\* there are no hits, no dates, no pairs, and the three booleans are false.
C6_DetectAlwaysReturns ==
    Detected =>
        /\ result.kind = "return"
        /\ DOMAIN result.value = ResultFields
        /\ ocr_text = <<>> =>
             result.value =
               [looks_like_eviction |-> FALSE,
                keyword_hits |-> <<>>,
                explicit_three_day_language |-> FALSE,
                extracted_dates |-> <<>>,
                date_pairs_with_3_day_gap |-> <<>>,
                evicted_with_3_day_gap |-> FALSE]

\* a text with a date-shaped substring out of range (April 31st)
C6_Witness ==
    /\ Detected
    /\ ocr_text = FrEviction \o FrSlashApr31
    /\ result.kind = "return"

\* C7: with a valid code the composer invokes llm_query_gemini exactly once,
\* with the rendered prompt; a missing credential, a failing or an empty
\* answer ends the call with an exception, without a second invocation; a
\* non-empty answer is returned as it is.
C7_OneInvocationFailurePropagates ==
    (InComposer /\ ValidPositions # {}) =>
        /\ prompt = RenderPrompt(tenant_context, valid_args)
        /\ llm_calls = <<prompt>>
        /\ pc = "llm" => remote_calls = <<>> /\ outcome = Pending
        /\ pc = "returned" =>
             IF api_key \in {NoValue, ""}
             THEN remote_calls = <<>> /\ outcome = Raised("EnvironmentError")
             ELSE /\ remote_calls = <<prompt>>
                  /\ response.kind = "error" => outcome = Raised(response.exc)
                  /\ response.kind = "none" => outcome.kind = "raise"
                  /\ response.kind = "response" =>
                       IF response.text \in {NoValue, ""}
                       THEN outcome.kind = "raise"
                       ELSE outcome = Returned(response.text)

\* the remote call answered with empty text: the call ended with an exception
C7_Witness ==
    /\ pc = "returned"
    /\ ValidPositions # {}
    /\ response = [kind |-> "response", text |-> ""]
    /\ outcome.kind = "raise"
    /\ Len(llm_calls) = 1

SelfTestDetected == Detected /\ ocr_text = SelfTestText

\* C8 as stated: for the self-test text, keyword_hits holds both
\* "three-day notice" and "within three days" (dates, pair and verdict as
\* listed).
C8_Original ==
    SelfTestDetected =>
        /\ KwThreeDayNotice \in Range(result.value.keyword_hits)
        /\ PhWithinThreeDays \in Range(result.value.keyword_hits)
        /\ result.value.extracted_dates = <<Iso20260101, Iso20260104>>
        /\ result.value.date_pairs_with_3_day_gap
             = << <<Iso20260101, Iso20260104, 3>> >>
        /\ result.value.evicted_with_3_day_gap

\* C8 amended: for the self-test text, keyword_hits is exactly
\* ["three-day notice"]; "within three days" is no keyword, it only makes
\* explicit_three_day_language true; dates, pair and verdict as listed.
C8_SelfTestResult ==
    SelfTestDetected =>
        /\ result.kind = "return"
        /\ result.value.keyword_hits = <<KwThreeDayNotice>>
        /\ PhWithinThreeDays \notin Range(EVICTION_KEYWORDS)
        /\ result.value.looks_like_eviction
        /\ result.value.explicit_three_day_language
        /\ result.value.extracted_dates = <<Iso20260101, Iso20260104>>
        /\ result.value.date_pairs_with_3_day_gap
             = << <<Iso20260101, Iso20260104, 3>> >>
        /\ result.value.evicted_with_3_day_gap

\* the self-test text has been classified
C8_Witness ==
    /\ SelfTestDetected
    /\ result.value.evicted_with_3_day_gap

\* a match read literally: month, day, year as written, 2000 added to a year
\* below 100
LiteralReading(m) ==
    [year |-> IF m.y < 100 THEN 2000 + m.y ELSE m.y,
     month |-> IF m.form = "name" THEN MonthMapGet(StrLower(m.month)) ELSE m.m,
     day |-> m.d]

\* C9: the extracted dates are exactly the literal readings of the matches
\* that are real calendar dates; a match that is not is dropped, without an
\* error and without effect on the others.
C9_LiteralReadingInvalidDropped ==
    Detected =>
        LET ms == AllMatches(ocr_text)
        IN  /\ dates.kind = "return"
            /\ Range(dates.value) =
                 {d \in {LiteralReading(ms[i]) : i \in DOMAIN ms} : RealDate(d)}
            /\ ocr_text = FrSlashMonth13 => dates.value = <<>>
            /\ ocr_text = FrSlashApr31 \o FrSlashJan1 =>
                 dates.value = <<[year |-> 2026, month |-> 1, day |-> 1]>>

\* month 13 next to a valid date: only the valid one is extracted
C9_Witness ==
    /\ Detected
    /\ ocr_text = FrSlashMonth13 \o FrSlashJan1
    /\ dates = Returned(<<[year |-> 2026, month |-> 1, day |-> 1]>>)

SharedPhrases == {KwThreeDayNotice, Kw3DashDayNotice, Kw3DayNotice}

GenericKeywords ==
    {KwEviction, KwUnlawfulDetainer, KwNoticeToQuit, KwNoticeToVacate,
     KwPayOrQuit, KwCureOrQuit}

\* the text holds the phrase, whatever the case of its letters
HoldsPhrase(t, ph) ==
    \E i \in 0..(Len(t) - Len(ph)) :
        \A j \in 1..Len(ph) :
            \/ t[i + j] = ph[j]
            \/ \E k \in 1..26 : t[i + j] = UpperChars[k] /\ ph[j] = LowerChars[k]

\* C10: a text holding "three-day notice", "3-day notice" or "3 day notice"
\* has explicit three-day language and a true verdict whatever its dates;
\* without explicit three-day language every keyword hit is a generic term.
C10_SharedPhrasesDecideAlone ==
    Detected =>
        /\ (\E ph \in SharedPhrases : HoldsPhrase(ocr_text, ph)) =>
             /\ result.value.explicit_three_day_language
             /\ result.value.evicted_with_3_day_gap
        /\ ~result.value.explicit_three_day_language =>
             Range(result.value.keyword_hits) \subseteq GenericKeywords

\* "3 Day Notice" beside a single date: no pair, yet the verdict is true
C10_Witness ==
    /\ Detected
    /\ ocr_text = FrSlashLeapDay \o Fr3DayNotice
    /\ result.value.date_pairs_with_3_day_gap = <<>>
    /\ result.value.evicted_with_3_day_gap

====
